---- MODULE Spec2Model ----
(***************************************************************************)
(* Model of the outlets weather pipeline:                                  *)
(*   scripts/fetch_weather.py   load_outlets, fetch_weather_data,          *)
(*                              parse_weather_data, save_to_csv,           *)
(*                              weather_fetch_pipeline                     *)
(*   scripts/load_csv_data.py   load_csv_to_table, main                    *)
(*                                                                         *)
(* Floats are modelled by integers (40 stands for 40.0), datetimes by a    *)
(* count of hours, Python's None by the empty tuple << >> and a present    *)
(* value v by << v >>.  A table's contents are a run-length encoded        *)
(* sequence of rows: the segment [f, lo, hi] stands for rows lo..hi of     *)
(* file f, and adjacent segments that continue one another are merged, so  *)
(* equal encodings are equal row sequences.                                *)
(***************************************************************************)
EXTENDS Integers, Sequences, FiniteSets, TLC

VARIABLES
    \* ---- fetch_weather.py ----
    source,        \* rows of csv_data/outlet.csv as csv.DictReader yields them
    outlets,       \* result of load_outlets
    p_pc,          \* position in weather_fetch_pipeline / the function under call
    p_i,           \* number of outlets the for loop has finished
    start_date,    \* fetch window, hours
    end_date,
    all_records,   \* the aggregate
    fetched,       \* history: what fetch_weather_data returned per attempted outlet
    files,         \* CSV artifacts written by save_to_csv, in order of writing
    pw_in,         \* arguments of a direct call of parse_weather_data
    pw_out,        \* its result
    \* ---- load_csv_data.py ----
    conn,          \* "none" | "open" | "broken" | "closed"
    tx,            \* server transaction state of the connection: "idle" | "aborted"
    tables,        \* committed contents of raw.<table>
    csvFiles,      \* csv_data/<table>.csv on disk
    weatherDir,    \* data/weather on disk
    m_pc,          \* position in main
    t_idx,         \* index into CSV_FILES of the table being loaded
    l_pc,          \* position in load_csv_to_table
    b_i,           \* i of the batch loop (rows already handled)
    success_count,
    weather_count, \* << >> while the local is unbound
    weather_files, \* sorted(weather_dir.glob(...))
    w_idx,         \* index of the artifact being loaded
    w_pc,          \* position in one artifact's try block
    exit_code,     \* << >> while running, << 0 >> normal end, << 1 >> sys.exit(1)
    lossy,         \* whether the database connection can be lost at a commit
    hist           \* history of the loader runs (observations only)

fvars == << source, outlets, p_pc, p_i, start_date, end_date, all_records,
            fetched, files, pw_in, pw_out >>
lvars == << conn, tx, tables, csvFiles, weatherDir, m_pc, t_idx, l_pc, b_i,
            success_count, weather_count, weather_files, w_idx, w_pc,
            exit_code, lossy, hist >>
vars == << fvars, lvars >>

\* ------------------------------------------------------------------ bounds
MaxRows == 3        \* rows of outlet.csv in the load_outlets check
MaxTimes == 2       \* entries of hourly.time in the parse_weather_data check
MaxOutlets == 2     \* rows of outlet.csv in the pipeline check
MaxRuns == 2        \* runs of the loader's main
MaxArtifacts == 2   \* weather artifacts in data/weather
MaxBadFiles == 1    \* dimension files missing or empty at once

\* --------------------------------------------------------------- constants
WindowHours == 24
batch_size == 1000

None == << >>
Some(v) == << v >>

RECURSIVE Concat(_)
Concat(ss) == IF ss = << >> THEN << >> ELSE Head(ss) \o Concat(Tail(ss))

\* ===================================================================== *
\*  fetch_weather.py                                                     *
\* ===================================================================== *

\* float(s) for the coordinate texts of the model
Float(s) ==
    CASE s = "0.0" -> 0
      [] s = "40.0" -> 40
      [] s = "41.0" -> 41
      [] s = "-75.0" -> -75
      [] s = "-76.0" -> -76

\* float(row[k]) if row[k] else 0.0
Coord(s) == IF s = "" THEN 0 ELSE Float(s)

HasId(os, id) == \E k \in 1..Len(os) : os[k].id = id

\* One iteration of the for loop of load_outlets over `row`, `os` being the
\* dict built so far (a dict keeps insertion order).
LoadRowLastWins(os, row) ==
    LET lat == Coord(row.latitude)
        lon == Coord(row.longitude)
        o == [id |-> row.id, name |-> row.name, latitude |-> lat, longitude |-> lon]
    IN  IF lat = 0 /\ lon = 0 THEN os
        ELSE IF HasId(os, row.id)
             THEN [k \in 1..Len(os) |-> IF os[k].id = row.id THEN o ELSE os[k]]
             ELSE Append(os, o)

LoadRow(os, row) ==
    LET lat == Coord(row.latitude)
        lon == Coord(row.longitude)
    IN  IF lat = 0 /\ lon = 0 THEN os
        ELSE IF HasId(os, row.id) THEN os
        ELSE Append(os, [id |-> row.id, name |-> row.name,
                         latitude |-> lat, longitude |-> lon])

RECURSIVE LoadFrom(_, _)
LoadFrom(os, rows) ==
    IF rows = << >> THEN os ELSE LoadFrom(LoadRow(os, Head(rows)), Tail(rows))

load_outlets(rows) == LoadFrom(<< >>, rows)

\* ---- parse_weather_data ----

\* time_str.replace('Z', ''): a non-string has no replace (AttributeError)
ReplaceZ(ts) ==
    CASE ts.fmt = "null" -> [exc |-> "AttributeError", s |-> ts]
      [] ts.fmt = "Z" -> [exc |-> "none", s |-> [h |-> ts.h, fmt |-> "naive"]]
      [] OTHER -> [exc |-> "none", s |-> ts]

\* datetime.fromisoformat: a text with a UTC offset parses to an aware datetime
FromIsoformat(s) ==
    CASE s.fmt = "garbage" -> [exc |-> "ValueError", h |-> 0, aware |-> FALSE]
      [] s.fmt = "offset" -> [exc |-> "none", h |-> s.h, aware |-> TRUE]
      [] OTHER -> [exc |-> "none", h |-> s.h, aware |-> FALSE]

\* arr[i] if i < len(arr) else None   (i is 0-based)
At(arr, i) == IF i < Len(arr) THEN Some(arr[i + 1]) ELSE None

MakeRecord(hourly, outlet, i) ==
    [outlet_id |-> outlet.id, outlet_name |-> outlet.name,
     latitude |-> outlet.latitude, longitude |-> outlet.longitude,
     time |-> hourly.time[i + 1],
     wind_speed_10m |-> At(hourly.wind_speed_10m, i),
     temperature_2m |-> At(hourly.temperature_2m, i),
     relative_humidity_2m |-> At(hourly.relative_humidity_2m, i)]

\* start_date <= time_dt <= end_date
InWindow(h, s, e) == s <= h /\ h <= e

\* The body of the for loop at index i: "skip", "emit", or "raise" when the
\* comparison of a naive with an aware datetime raises TypeError, which the
\* except clause (ValueError, AttributeError) does not catch.
ParseIndex(hourly, i, s, e) ==
    LET r == ReplaceZ(hourly.time[i + 1])
        d == FromIsoformat(r.s)
    IN  IF r.exc # "none" THEN "skip"
        ELSE IF d.exc # "none" THEN "skip"
        ELSE IF d.aware THEN "raise"
        ELSE IF InWindow(d.h, s, e) THEN "emit"
        ELSE "skip"

RECURSIVE ParseLoop(_, _, _, _, _, _)
ParseLoop(hourly, outlet, s, e, i, records) ==
    IF i >= Len(hourly.time) THEN [exc |-> "none", records |-> records]
    ELSE LET what == ParseIndex(hourly, i, s, e)
         IN  IF what = "raise" THEN [exc |-> "TypeError", records |-> << >>]
             ELSE ParseLoop(hourly, outlet, s, e, i + 1,
                            IF what = "emit"
                            THEN Append(records, MakeRecord(hourly, outlet, i))
                            ELSE records)

\* weather_json: [kind |-> "null" | "empty" | "nohourly" | "hourly", hourly |-> ...]
Falsy(json) == json.kind \in {"null", "empty"}

parse_weather_data(json, outlet, s, e) ==
    IF Falsy(json) \/ json.kind # "hourly"
    THEN [exc |-> "none", records |-> << >>]
    ELSE ParseLoop(json.hourly, outlet, s, e, 0, << >>)

\* ---- save_to_csv ----

\* csv.DictWriter writes None as the empty cell and a number as its text
Cell(m) == IF m = None THEN "" ELSE ToString(m[1])

CsvRow(r) ==
    << ToString(r.outlet_id), r.outlet_name, ToString(r.latitude),
       ToString(r.longitude), r.time, Cell(r.wind_speed_10m),
       Cell(r.temperature_2m), Cell(r.relative_humidity_2m) >>

fieldnames ==
    << "outlet_id", "outlet_name", "latitude", "longitude", "time",
       "wind_speed_10m", "temperature_2m", "relative_humidity_2m" >>

\* the files on disk after save_to_csv(records, output_path)
save_to_csv(records, fs) ==
    IF records = << >> THEN fs
    ELSE Append(fs, [header |-> fieldnames,
                     rows |-> [k \in 1..Len(records) |-> CsvRow(records[k])]])

\* ---- fetch_weather_data ----

NullJson == [kind |-> "null", hourly |-> << >>]

\* requests.get + raise_for_status + json(): any RequestException gives None
fetch_weather_data(net) == IF net.status = "error" THEN NullJson ELSE net.body

\* ---- inputs of the fetch side ----

SeqsUpTo(S, n) == UNION {[1..k -> S] : k \in 0..n}

CoordTexts == {<< "", "" >>, << "0.0", "0.0" >>, << "0.0", "-75.0" >>, << "40.0", "-75.0" >>}

OutletRows ==
    {[id |-> i, name |-> n, latitude |-> c[1], longitude |-> c[2]] :
        i \in {1, 2}, n \in {"A", "B"}, c \in CoordTexts}

Naive(h) == [h |-> h, fmt |-> "naive"]

TimeTexts ==
    {Naive(23), Naive(24), Naive(48), Naive(49),
     [h |-> 24, fmt |-> "Z"], [h |-> 48, fmt |-> "offset"],
     [h |-> 0, fmt |-> "garbage"], [h |-> 0, fmt |-> "null"]}

Measurements(base, n) == [k \in 1..n |-> base + k]

Hourly(time, lw, lt, lh) ==
    [kind |-> "hourly",
     hourly |-> [time |-> time,
                 wind_speed_10m |-> Measurements(10, lw),
                 temperature_2m |-> Measurements(20, lt),
                 relative_humidity_2m |-> Measurements(30, lh)]]

EmptyJson == [kind |-> "empty", hourly |-> << >>]
NoHourlyJson == [kind |-> "nohourly", hourly |-> << >>]

ParseJsons ==
    {NullJson, EmptyJson, NoHourlyJson}
    \cup {Hourly(t, lw, lt, lh) :
            t \in SeqsUpTo(TimeTexts, MaxTimes),
            lw \in 0..MaxTimes, lt \in {0, MaxTimes}, lh \in {0, 1}}

Windows == {<< 24, 48 >>, << 24, 24 >>, << 25, 47 >>}

TheOutlet == [id |-> 1, name |-> "A", latitude |-> 40, longitude |-> -75]

PipelineRows ==
    {[id |-> 1, name |-> "A", latitude |-> "40.0", longitude |-> "-75.0"],
     [id |-> 1, name |-> "B", latitude |-> "0.0", longitude |-> "-75.0"],
     [id |-> 2, name |-> "C", latitude |-> "40.0", longitude |-> "-75.0"],
     [id |-> 2, name |-> "D", latitude |-> "", longitude |-> ""]}

Nows == {48}

\* what the network may answer for a run whose end_date is `now`
NetOutcomes(now) ==
    {[status |-> "error", body |-> NullJson],
     [status |-> "ok", body |-> EmptyJson],
     [status |-> "ok", body |-> NoHourlyJson],
     [status |-> "ok",
      body |-> Hourly(<< Naive(now - 25), Naive(now - 24), Naive(now), Naive(now + 1) >>, 4, 2, 0)],
     [status |-> "ok", body |-> Hourly(<< [h |-> now, fmt |-> "Z"] >>, 1, 0, 1)],
     [status |-> "ok", body |-> Hourly(<< [h |-> 0, fmt |-> "garbage"], Naive(now + 1) >>, 2, 2, 2)],
     [status |-> "ok", body |-> Hourly(<< Naive(now), [h |-> now, fmt |-> "offset"] >>, 2, 2, 2)]}

\* ---- states of the side that is not running ----

NoParseCall == [json |-> NullJson, outlet |-> TheOutlet, s |-> 0, e |-> 0]
NoParseResult == [exc |-> "unset", records |-> << >>]

FetchIdle ==
    /\ source = << >> /\ outlets = << >> /\ p_pc = "idle" /\ p_i = 0
    /\ start_date = 0 /\ end_date = 0 /\ all_records = << >>
    /\ fetched = << >> /\ files = << >>
    /\ pw_in = NoParseCall /\ pw_out = NoParseResult

LoaderIdle ==
    /\ conn = "none" /\ tx = "idle" /\ tables = << >> /\ csvFiles = << >>
    /\ weatherDir = << >> /\ m_pc = "idle" /\ t_idx = 0 /\ l_pc = "idle"
    /\ b_i = 0 /\ success_count = 0 /\ weather_count = None
    /\ weather_files = << >> /\ w_idx = 0 /\ w_pc = "idle"
    /\ exit_code = None /\ lossy = FALSE /\ hist = << >>

\* ---- a direct call of load_outlets ----

InitOutlets ==
    /\ LoaderIdle
    /\ source \in SeqsUpTo(OutletRows, MaxRows)
    /\ outlets = << >> /\ p_pc = "call_load_outlets" /\ p_i = 0
    /\ start_date = 0 /\ end_date = 0 /\ all_records = << >>
    /\ fetched = << >> /\ files = << >>
    /\ pw_in = NoParseCall /\ pw_out = NoParseResult

CallLoadOutlets ==
    /\ p_pc = "call_load_outlets"
    /\ outlets' = load_outlets(source)
    /\ p_pc' = "returned"
    /\ UNCHANGED << source, p_i, start_date, end_date, all_records, fetched,
                    files, pw_in, pw_out, lvars >>

SpecOutlets == InitOutlets /\ [][CallLoadOutlets]_vars

\* ---- a direct call of parse_weather_data ----

InitParse ==
    /\ LoaderIdle
    /\ source = << >> /\ outlets = << >> /\ p_pc = "call_parse" /\ p_i = 0
    /\ start_date = 0 /\ end_date = 0 /\ all_records = << >>
    /\ fetched = << >> /\ files = << >>
    /\ pw_in \in {[json |-> j, outlet |-> TheOutlet, s |-> w[1], e |-> w[2]] :
                     j \in ParseJsons, w \in Windows}
    /\ pw_out = NoParseResult

CallParse ==
    /\ p_pc = "call_parse"
    /\ pw_out' = parse_weather_data(pw_in.json, pw_in.outlet, pw_in.s, pw_in.e)
    /\ p_pc' = "parsed"
    /\ UNCHANGED << source, outlets, p_i, start_date, end_date, all_records,
                    fetched, files, pw_in, lvars >>

SpecParse == InitParse /\ [][CallParse]_vars

\* ---- weather_fetch_pipeline ----

InitPipeline ==
    /\ LoaderIdle
    /\ source \in SeqsUpTo(PipelineRows, MaxOutlets)
    /\ outlets = << >> /\ p_pc = "start" /\ p_i = 0
    /\ start_date = 0 /\ end_date = 0 /\ all_records = << >>
    /\ fetched = << >> /\ files = << >>
    /\ pw_in = NoParseCall /\ pw_out = NoParseResult

\* lines 166-182: the catalog, the window, the empty aggregate
PipelineStart ==
    /\ p_pc = "start"
    /\ outlets' = load_outlets(source)
    /\ \E now \in Nows : end_date' = now /\ start_date' = now - WindowHours
    /\ all_records' = << >>
    /\ p_i' = 0
    /\ p_pc' = "loop"
    /\ UNCHANGED << source, fetched, files, pw_in, pw_out, lvars >>

\* a variant of the loop body in which a failed fetch leaves the loop
FetchOutletBreaks ==
    /\ p_pc = "loop" /\ p_i < Len(outlets)
    /\ \E net \in NetOutcomes(end_date) :
         LET outlet == outlets[p_i + 1]
             json == fetch_weather_data(net)
             r == parse_weather_data(json, outlet, start_date, end_date)
         IN  /\ fetched' = Append(fetched, [outlet |-> outlet, json |-> json])
             /\ IF Falsy(json)
                THEN /\ p_i' = Len(outlets) /\ p_pc' = p_pc
                     /\ all_records' = all_records
                ELSE IF r.exc # "none"
                THEN /\ p_pc' = "raised" /\ p_i' = p_i
                     /\ all_records' = all_records
                ELSE /\ p_i' = p_i + 1 /\ p_pc' = p_pc
                     /\ all_records' = all_records \o r.records
    /\ UNCHANGED << source, outlets, start_date, end_date, files, pw_in, pw_out, lvars >>

\* lines 183-198: one iteration of the for loop over the outlets
FetchOutlet ==
    /\ p_pc = "loop" /\ p_i < Len(outlets)
    /\ \E net \in NetOutcomes(end_date) :
         LET outlet == outlets[p_i + 1]
             json == fetch_weather_data(net)
             r == parse_weather_data(json, outlet, start_date, end_date)
         IN  /\ fetched' = Append(fetched, [outlet |-> outlet, json |-> json])
             /\ IF Falsy(json)
                THEN /\ p_i' = p_i + 1 /\ p_pc' = p_pc
                     /\ all_records' = all_records
                ELSE IF r.exc # "none"
                THEN /\ p_pc' = "raised" /\ p_i' = p_i
                     /\ all_records' = all_records
                ELSE /\ p_i' = p_i + 1 /\ p_pc' = p_pc
                     /\ all_records' = all_records \o r.records
    /\ UNCHANGED << source, outlets, start_date, end_date, files, pw_in, pw_out, lvars >>

\* a variant of the end of the run that calls the sink without the guards
PipelineSaveUnguarded ==
    /\ p_pc = "loop" /\ p_i = Len(outlets)
    /\ files' = Append(files, [header |-> fieldnames,
                               rows |-> [k \in 1..Len(all_records) |-> CsvRow(all_records[k])]])
    /\ p_pc' = "done"
    /\ UNCHANGED << source, outlets, p_i, start_date, end_date, all_records,
                    fetched, pw_in, pw_out, lvars >>

\* lines 200-209: the end of the run
PipelineSave ==
    /\ p_pc = "loop" /\ p_i = Len(outlets)
    /\ files' = IF all_records # << >> THEN save_to_csv(all_records, files) ELSE files
    /\ p_pc' = "done"
    /\ UNCHANGED << source, outlets, p_i, start_date, end_date, all_records,
                    fetched, pw_in, pw_out, lvars >>

NextPipeline == PipelineStart \/ FetchOutlet \/ PipelineSave

SpecPipeline == InitPipeline /\ [][NextPipeline]_vars

\* ===================================================================== *
\*  load_csv_data.py                                                     *
\* ===================================================================== *

\* CSV_FILES, in the order of the dict
TableOrder ==
    << "org", "platform", "outlet", "listing", "orders", "orders_daily",
       "ratings_agg", "rank" >>

TableNames == {TableOrder[k] : k \in 1..Len(TableOrder)}
AllTables == TableNames \cup {"weather"}

\* the rows of csv_data/<table>.csv are the rows 1..n of file number FileId
FileId(t) == CHOOSE k \in 1..Len(TableOrder) : TableOrder[k] = t

Min(a, b) == IF a < b THEN a ELSE b

\* rows lo..hi of file f appended to a table's contents (cursor.executemany
\* followed by conn.commit)
AppendRows(content, f, lo, hi) ==
    IF content # << >> /\ content[Len(content)].f = f
                       /\ content[Len(content)].hi + 1 = lo
    THEN [content EXCEPT ![Len(content)].hi = hi]
    ELSE Append(content, [f |-> f, lo |-> lo, hi |-> hi])

RECURSIVE RowCount(_)
RowCount(content) ==
    IF content = << >> THEN 0
    ELSE (Head(content).hi - Head(content).lo + 1) + RowCount(Tail(content))

\* sorted(weather_dir.glob('weather_*.csv')): ascending by file name
RECURSIVE SortedDescending(_)
SortedDescending(S) ==
    IF S = {} THEN << >>
    ELSE LET a == CHOOSE x \in S : \A y \in S : y.name <= x.name
         IN  << a >> \o SortedDescending(S \ {a})

RECURSIVE Sorted(_)
Sorted(S) ==
    IF S = {} THEN << >>
    ELSE LET a == CHOOSE x \in S : \A y \in S : x.name <= y.name
         IN  << a >> \o Sorted(S \ {a})

\* what conn.commit() can do
CommitOutcomes == IF lossy THEN {"ok", "lost"} ELSE {"ok"}

CurrentTable == TableOrder[t_idx]

\* an exception leaves load_csv_to_table or the weather set-up: main's except
\* clauses print and sys.exit(1); the process ends and with it the connection
Abort ==
    /\ m_pc' = "done" /\ exit_code' = Some(1) /\ conn' = "closed"
    /\ l_pc' = "idle" /\ w_pc' = "idle"
    /\ UNCHANGED << tx, csvFiles, weatherDir, t_idx, b_i, success_count,
                    weather_count, weather_files, w_idx, lossy >>

\* load_csv_to_table returned `ok`: lines 181-183 and the step to the next table
Returned(ok) ==
    /\ success_count' = IF ok THEN success_count + 1 ELSE success_count
    /\ b_i' = 0
    /\ IF t_idx < Len(TableOrder)
       THEN /\ t_idx' = t_idx + 1 /\ l_pc' = "create" /\ m_pc' = m_pc
       ELSE /\ t_idx' = t_idx /\ l_pc' = "idle" /\ m_pc' = "weather"
    /\ UNCHANGED << conn, tx, csvFiles, weatherDir, weather_count,
                    weather_files, w_idx, w_pc, exit_code, lossy >>

NoCounts == [t \in AllTables |-> 0]

NewRunHist(h) ==
    [h EXCEPT !.run = h.run + 1, !.attempted = << >>, !.truncs = NoCounts,
              !.batches = NoCounts, !.returned = [t \in TableNames |-> "none"],
              !.wtried = << >>, !.wrun = << >>, !.connected = FALSE,
              !.raised = FALSE, !.lost = FALSE, !.wloaded = FALSE]

\* lines 173-180: psycopg2.connect and the start of the table loop
Connect ==
    /\ m_pc = "start"
    /\ \E ok \in BOOLEAN :
         IF ok
         THEN /\ conn' = "open" /\ tx' = "idle"
              /\ success_count' = 0 /\ t_idx' = 1 /\ l_pc' = "create"
              /\ m_pc' = "tables" /\ exit_code' = None
              /\ hist' = [hist EXCEPT !.connected = TRUE]
         ELSE /\ conn' = "none" /\ tx' = "idle"
              /\ success_count' = success_count /\ t_idx' = t_idx /\ l_pc' = l_pc
              /\ m_pc' = "done" /\ exit_code' = Some(1)
              /\ hist' = [hist EXCEPT !.failed = TRUE]
    /\ UNCHANGED << tables, csvFiles, weatherDir, b_i, weather_count,
                    weather_files, w_idx, w_pc, lossy, fvars >>

\* lines 119-124: CREATE TABLE IF NOT EXISTS and its commit
LoadCreate ==
    /\ m_pc = "tables" /\ l_pc = "create"
    /\ \E c \in CommitOutcomes :
         IF c = "lost"
         THEN /\ Abort
              /\ hist' = [hist EXCEPT !.attempted = Append(@, CurrentTable),
                                      !.raised = TRUE, !.lost = TRUE, !.failed = TRUE]
         ELSE /\ l_pc' = "truncate"
              /\ hist' = [hist EXCEPT !.attempted = Append(@, CurrentTable)]
              /\ UNCHANGED << conn, tx, csvFiles, weatherDir, m_pc, t_idx, b_i,
                              success_count, weather_count, weather_files,
                              w_idx, w_pc, exit_code, lossy >>
    /\ UNCHANGED << tables, fvars >>

\* a variant of lines 126-128 that leaves the table as it is
LoadTruncateSkipped ==
    /\ m_pc = "tables" /\ l_pc = "truncate"
    /\ l_pc' = "read"
    /\ hist' = [hist EXCEPT !.truncs[CurrentTable] = @ + 1]
    /\ UNCHANGED << conn, tx, tables, csvFiles, weatherDir, m_pc, t_idx, b_i,
                    success_count, weather_count, weather_files, w_idx, w_pc,
                    exit_code, lossy, fvars >>

\* lines 126-128: TRUNCATE TABLE and its commit
LoadTruncate ==
    /\ m_pc = "tables" /\ l_pc = "truncate"
    /\ \E c \in CommitOutcomes :
         IF c = "lost"
         THEN /\ Abort
              /\ tables' = tables
              /\ hist' = [hist EXCEPT !.raised = TRUE, !.lost = TRUE, !.failed = TRUE]
         ELSE /\ tables' = [tables EXCEPT ![CurrentTable] = << >>]
              /\ l_pc' = "read"
              /\ hist' = [hist EXCEPT !.truncs[CurrentTable] = @ + 1]
              /\ UNCHANGED << conn, tx, csvFiles, weatherDir, m_pc, t_idx, b_i,
                              success_count, weather_count, weather_files,
                              w_idx, w_pc, exit_code, lossy >>
    /\ UNCHANGED fvars

\* lines 130-151: the file is looked up and read; a missing file or a file
\* without rows returns False
LoadRead ==
    /\ m_pc = "tables" /\ l_pc = "read"
    /\ LET file == csvFiles[CurrentTable]
       IN  IF ~file.exists \/ file.n = 0
           THEN /\ Returned(FALSE)
                /\ hist' = [hist EXCEPT !.returned[CurrentTable] = "false"]
           ELSE /\ l_pc' = "batch" /\ b_i' = 0
                /\ hist' = hist
                /\ UNCHANGED << conn, tx, csvFiles, weatherDir, m_pc, t_idx,
                                success_count, weather_count, weather_files,
                                w_idx, w_pc, exit_code, lossy >>
    /\ UNCHANGED << tables, fvars >>

\* a variant of the batch loop that truncates before every batch
LoadBatchTruncating ==
    /\ m_pc = "tables" /\ l_pc = "batch"
    /\ LET t == CurrentTable
           file == csvFiles[t]
           hi == Min(b_i + batch_size, file.n)
       IN  IF file.bad \in (b_i + 1)..hi
           THEN /\ Abort
                /\ tables' = tables
                /\ hist' = [hist EXCEPT !.raised = TRUE, !.failed = TRUE]
           ELSE /\ tables' = [tables EXCEPT ![t] = AppendRows(<< >>, FileId(t), b_i + 1, hi)]
                /\ IF hi < file.n
                   THEN /\ b_i' = hi
                        /\ hist' = [hist EXCEPT !.batches[t] = @ + 1, !.truncs[t] = @ + 1]
                        /\ UNCHANGED << conn, tx, csvFiles, weatherDir, m_pc, t_idx,
                                        l_pc, success_count, weather_count,
                                        weather_files, w_idx, w_pc, exit_code, lossy >>
                   ELSE /\ Returned(TRUE)
                        /\ hist' = [hist EXCEPT !.batches[t] = @ + 1, !.truncs[t] = @ + 1,
                                                !.returned[t] = "true"]
    /\ UNCHANGED fvars

\* lines 155-163: one batch of at most batch_size rows is inserted and
\* committed; after the last one the function returns True.  A row the server
\* rejects, or a lost connection, raises out of the function.
LoadBatch ==
    /\ m_pc = "tables" /\ l_pc = "batch"
    /\ \E c \in CommitOutcomes :
         LET t == CurrentTable
             file == csvFiles[t]
             hi == Min(b_i + batch_size, file.n)
         IN  IF file.bad \in (b_i + 1)..hi
             THEN /\ Abort
                  /\ tables' = tables
                  /\ hist' = [hist EXCEPT !.raised = TRUE, !.failed = TRUE]
             ELSE IF c = "lost"
             THEN /\ Abort
                  /\ tables' = tables
                  /\ hist' = [hist EXCEPT !.raised = TRUE, !.lost = TRUE, !.failed = TRUE]
             ELSE /\ tables' = [tables EXCEPT ![t] = AppendRows(@, FileId(t), b_i + 1, hi)]
                  /\ IF hi < file.n
                     THEN /\ b_i' = hi
                          /\ hist' = [hist EXCEPT !.batches[t] = @ + 1]
                          /\ UNCHANGED << conn, tx, csvFiles, weatherDir, m_pc, t_idx,
                                          l_pc, success_count, weather_count,
                                          weather_files, w_idx, w_pc, exit_code, lossy >>
                     ELSE /\ Returned(TRUE)
                          /\ hist' = [hist EXCEPT !.batches[t] = @ + 1,
                                                  !.returned[t] = "true"]
    /\ UNCHANGED fvars

\* lines 186-196: the weather directory is looked up; with artifacts in it the
\* weather table is created and weather_count is bound to 0
WeatherCheck ==
    /\ m_pc = "weather"
    /\ LET found == IF weatherDir.exists THEN Sorted(weatherDir.files) ELSE << >>
       IN  IF found = << >>
           THEN /\ m_pc' = "close"
                /\ hist' = hist
                /\ UNCHANGED << conn, tx, csvFiles, weatherDir, t_idx, l_pc, b_i,
                                success_count, weather_count, weather_files,
                                w_idx, w_pc, exit_code, lossy >>
           ELSE \E c \in CommitOutcomes :
                  IF c = "lost"
                  THEN /\ Abort
                       /\ hist' = [hist EXCEPT !.raised = TRUE, !.lost = TRUE, !.failed = TRUE]
                  ELSE /\ weather_files' = found /\ weather_count' = Some(0)
                       /\ w_idx' = 1 /\ w_pc' = "open" /\ b_i' = 0
                       /\ m_pc' = "wloop"
                       /\ hist' = hist
                       /\ UNCHANGED << conn, tx, csvFiles, weatherDir, t_idx, l_pc,
                                       success_count, exit_code, lossy >>
    /\ UNCHANGED << tables, fvars >>

\* the step to the next artifact (the for loop of line 197), or past the loop
\* to cursor.close()
NextArtifact ==
    /\ b_i' = 0
    /\ IF w_idx < Len(weather_files)
       THEN /\ w_idx' = w_idx + 1 /\ w_pc' = "open" /\ m_pc' = m_pc
       ELSE /\ w_idx' = w_idx /\ w_pc' = "idle" /\ m_pc' = "close"
    /\ UNCHANGED << csvFiles, weatherDir, t_idx, l_pc, success_count,
                    weather_files, exit_code, lossy >>

\* lines 198-211: the artifact is opened and read; an error is caught and
\* printed, an artifact without rows prints "No data"
WeatherOpen ==
    /\ m_pc = "wloop" /\ w_pc = "open"
    /\ LET a == weather_files[w_idx]
       IN  IF ~a.readable
           THEN /\ NextArtifact
                /\ hist' = [hist EXCEPT !.wtried = Append(@, a.name), !.failed = TRUE]
           ELSE IF a.n = 0
           THEN /\ NextArtifact
                /\ hist' = [hist EXCEPT !.wtried = Append(@, a.name)]
           ELSE /\ w_pc' = "batch" /\ b_i' = 0
                /\ hist' = [hist EXCEPT !.wtried = Append(@, a.name)]
                /\ UNCHANGED << csvFiles, weatherDir, m_pc, t_idx, l_pc,
                                success_count, weather_files, w_idx, exit_code, lossy >>
    /\ UNCHANGED << conn, tx, tables, weather_count, fvars >>

\* lines 212-224: one batch of an artifact is inserted and committed; after
\* the last one weather_count grows by len(rows).  An exception is caught by
\* the except clause of line 223, which prints it and does nothing else: a
\* statement the server rejected leaves the connection's transaction aborted,
\* and every later statement on it is rejected until a rollback.
WeatherBatch ==
    /\ m_pc = "wloop" /\ w_pc = "batch"
    /\ \E c \in CommitOutcomes :
         LET a == weather_files[w_idx]
             hi == Min(b_i + batch_size, a.n)
         IN  IF conn = "broken" \/ tx = "aborted"
             THEN /\ NextArtifact
                  /\ UNCHANGED << conn, tx, tables, weather_count >>
                  /\ hist' = [hist EXCEPT !.failed = TRUE]
             ELSE IF a.bad \in (b_i + 1)..hi
             THEN /\ NextArtifact
                  /\ tx' = "aborted"
                  /\ UNCHANGED << conn, tables, weather_count >>
                  /\ hist' = [hist EXCEPT !.failed = TRUE]
             ELSE IF c = "lost"
             THEN /\ NextArtifact
                  /\ conn' = "broken"
                  /\ UNCHANGED << tx, tables, weather_count >>
                  /\ hist' = [hist EXCEPT !.failed = TRUE, !.lost = TRUE]
             ELSE /\ tables' = [tables EXCEPT !["weather"] = AppendRows(@, a.name, b_i + 1, hi)]
                  /\ hist' = [hist EXCEPT !.wrun = AppendRows(@, a.name, b_i + 1, hi)]
                  /\ UNCHANGED << conn, tx >>
                  /\ IF hi < a.n
                     THEN /\ b_i' = hi
                          /\ UNCHANGED << csvFiles, weatherDir, m_pc, t_idx, l_pc,
                                          success_count, weather_count, weather_files,
                                          w_idx, w_pc, exit_code, lossy >>
                     ELSE /\ weather_count' = Some(weather_count[1] + a.n)
                          /\ NextArtifact
    /\ UNCHANGED fvars

\* lines 226-237: the cursor and the connection are closed and the totals
\* printed; line 235 reads weather_count, which is unbound when the weather
\* directory is absent or holds no artifact (UnboundLocalError, caught by the
\* except clause of line 246, which exits with status 1)
Close ==
    /\ m_pc = "close"
    /\ conn' = "closed"
    /\ exit_code' = IF weather_count = None THEN Some(1) ELSE Some(0)
    /\ m_pc' = "done"
    /\ hist' = [hist EXCEPT !.wloaded = (weather_count # None)]
    /\ UNCHANGED << tx, tables, csvFiles, weatherDir, t_idx, l_pc, b_i,
                    success_count, weather_count, weather_files, w_idx, w_pc,
                    lossy, fvars >>

\* the script is run again: a new process, the same disk and database
Rerun ==
    /\ m_pc = "done" /\ hist.run < MaxRuns
    /\ m_pc' = "start" /\ conn' = "none" /\ tx' = "idle"
    /\ t_idx' = 0 /\ l_pc' = "idle" /\ b_i' = 0 /\ success_count' = 0
    /\ weather_count' = None /\ weather_files' = << >> /\ w_idx' = 0
    /\ w_pc' = "idle" /\ exit_code' = None
    /\ hist' = NewRunHist(hist)
    /\ UNCHANGED << tables, csvFiles, weatherDir, lossy, fvars >>

\* ---- the disk and the database a run may find ----

RowCounts == {1, batch_size, batch_size + 1, 2 * batch_size + 1}

GoodFile == [exists |-> TRUE, n |-> 1, bad |-> 0]
MissingFile == [exists |-> FALSE, n |-> 0, bad |-> 0]
EmptyFile == [exists |-> TRUE, n |-> 0, bad |-> 0]

\* files with rows, none or one of which (the first or the last) the server rejects
RowFiles ==
    {[exists |-> TRUE, n |-> n, bad |-> b] : n \in RowCounts, b \in {0, 1}}
    \cup {[exists |-> TRUE, n |-> n, bad |-> n] : n \in RowCounts}

ArtifactStates ==
    {[readable |-> FALSE, n |-> 0, bad |-> 0],
     [readable |-> TRUE, n |-> 0, bad |-> 0],
     [readable |-> TRUE, n |-> 2, bad |-> 0],
     [readable |-> TRUE, n |-> 2, bad |-> 1],
     [readable |-> TRUE, n |-> batch_size + 1, bad |-> 0],
     [readable |-> TRUE, n |-> batch_size + 1, bad |-> batch_size + 1]}

Artifact(name, st) ==
    [name |-> name, readable |-> st.readable, n |-> st.n, bad |-> st.bad]

\* directories of at most MaxArtifacts artifacts
Directories ==
    {[exists |-> TRUE, files |-> {Artifact(k, g[k]) : k \in S}] :
        S \in SUBSET (1..MaxArtifacts), g \in [1..MaxArtifacts -> ArtifactStates]}

AbsentDir == [exists |-> FALSE, files |-> {}]
EmptyDir == [exists |-> TRUE, files |-> {}]
OneArtifactDir ==
    [exists |-> TRUE, files |-> {Artifact(1, [readable |-> TRUE, n |-> 2, bad |-> 0])}]

AllGood == [t \in TableNames |-> GoodFile]

\* rows already in a table before the first run (file 0)
Priors == {<< >>, << [f |-> 0, lo |-> 1, hi |-> 5] >>}

\* one table's file varies
ScenariosTable ==
    {[csv |-> [AllGood EXCEPT ![t] = f], dir |-> OneArtifactDir, lossy |-> FALSE] :
        t \in TableNames, f \in RowFiles}

\* at most MaxBadFiles files are missing or empty; the directory varies
ScenariosMain ==
    {[csv |-> [t \in TableNames |-> IF t \in B THEN g[t] ELSE GoodFile],
      dir |-> d, lossy |-> FALSE] :
        B \in {X \in SUBSET TableNames : Cardinality(X) <= MaxBadFiles},
        g \in [TableNames -> {MissingFile, EmptyFile}],
        d \in {AbsentDir, EmptyDir, OneArtifactDir}}

\* the artifacts vary
ScenariosWeather ==
    {[csv |-> AllGood, dir |-> d, lossy |-> FALSE] : d \in Directories}

\* the connection can be lost
ScenariosLossy ==
    {[csv |-> [AllGood EXCEPT !["rank"] = f], dir |-> d, lossy |-> TRUE] :
        f \in {GoodFile, [exists |-> TRUE, n |-> batch_size + 1, bad |-> 0]},
        d \in {OneArtifactDir,
               [exists |-> TRUE,
                files |-> {Artifact(1, [readable |-> TRUE, n |-> batch_size + 1, bad |-> 0]),
                           Artifact(2, [readable |-> TRUE, n |-> 2, bad |-> 0])}]}}

Scenarios == ScenariosTable \cup ScenariosMain \cup ScenariosWeather \cup ScenariosLossy

Init ==
    /\ FetchIdle
    /\ \E sc \in Scenarios, prior \in Priors :
         /\ csvFiles = sc.csv /\ weatherDir = sc.dir /\ lossy = sc.lossy
         /\ tables = [t \in AllTables |-> prior]
         /\ hist = [run |-> 1, attempted |-> << >>, truncs |-> NoCounts,
                    batches |-> NoCounts, returned |-> [t \in TableNames |-> "none"],
                    wtried |-> << >>, wrun |-> << >>, connected |-> FALSE,
                    raised |-> FALSE, lost |-> FALSE, failed |-> FALSE,
                    wloaded |-> FALSE, weather0 |-> prior]
    /\ conn = "none" /\ tx = "idle" /\ m_pc = "start" /\ t_idx = 0
    /\ l_pc = "idle" /\ b_i = 0 /\ success_count = 0 /\ weather_count = None
    /\ weather_files = << >> /\ w_idx = 0 /\ w_pc = "idle" /\ exit_code = None

Next ==
    \/ Connect \/ LoadCreate \/ LoadTruncate \/ LoadRead \/ LoadBatch
    \/ WeatherCheck \/ WeatherOpen \/ WeatherBatch \/ Close \/ Rerun

Spec == Init /\ [][Next]_vars

\* ===================================================================== *
\*  Properties of the fetch side                                         *
\* ===================================================================== *

ValidRow(row) == ~(Coord(row.latitude) = 0 /\ Coord(row.longitude) = 0)

OutletOf(row) ==
    [id |-> row.id, name |-> row.name,
     latitude |-> Coord(row.latitude), longitude |-> Coord(row.longitude)]

UniqueIds(os) == \A j, k \in 1..Len(os) : os[j].id = os[k].id => j = k

\* the first index of rows that satisfies P and carries id (0 when none)
FirstIndex(rows, id, P(_)) ==
    LET S == {k \in 1..Len(rows) : rows[k].id = id /\ P(rows[k])}
    IN  IF S = {} THEN 0 ELSE CHOOSE k \in S : \A j \in S : k <= j

AnyRow(row) == TRUE

\* C1 as stated: load_outlets returns at most one outlet per id, and each
\* returned outlet carries the name and coordinates of the first row of the
\* source with that id, whatever that row's coordinates are.
C1_FirstRowWins ==
    p_pc = "returned" =>
        /\ UniqueIds(outlets)
        /\ \A k \in 1..Len(outlets) :
              LET f == FirstIndex(source, outlets[k].id, AnyRow)
              IN  f # 0 /\ outlets[k] = OutletOf(source[f])

\* C1 amended: load_outlets returns at most one outlet per id, and each
\* returned outlet carries the name and coordinates of the first row of the
\* source with that id whose location is not (0.0, 0.0); an id is returned
\* exactly when the source has such a row.
C1_FirstValidRowWins ==
    p_pc = "returned" =>
        /\ UniqueIds(outlets)
        /\ \A k \in 1..Len(outlets) :
              LET f == FirstIndex(source, outlets[k].id, ValidRow)
              IN  f # 0 /\ outlets[k] = OutletOf(source[f])
        /\ \A r \in 1..Len(source) :
              ValidRow(source[r]) => HasId(outlets, source[r].id)

\* a source whose first row of an id has no location and whose two later rows
\* of the same id are valid and differ
C1_Witness ==
    /\ p_pc = "returned"
    /\ Len(source) = 3
    /\ source[1].id = source[2].id /\ source[2].id = source[3].id
    /\ ~ValidRow(source[1]) /\ ValidRow(source[2]) /\ ValidRow(source[3])
    /\ source[2].name # source[3].name
    /\ Len(outlets) = 1 /\ outlets[1].name = source[2].name

\* the indices (0-based) of a time array whose text has no UTC offset, parses
\* and lies in [s, e], in array order
RECURSIVE InWindowIndices(_, _, _, _)
InWindowIndices(time, s, e, i) ==
    IF i >= Len(time) THEN << >>
    ELSE (IF time[i + 1].fmt \in {"naive", "Z"} /\ s <= time[i + 1].h /\ time[i + 1].h <= e
          THEN << i >> ELSE << >>) \o InWindowIndices(time, s, e, i + 1)

NoOffset(rec) == rec.time.fmt # "offset"

\* C2 as stated: for every window and every response with an hourly time
\* array, parse_weather_data emits, in array order, exactly one record for each
\* index whose timestamp parses and lies in [start, end], and no other record.
\* (Stated on the timestamps without a UTC offset, so that the formula takes no
\* side on whether an offset-carrying timestamp lies in a naive window.)
C2_WindowFilter ==
    (p_pc = "parsed" /\ pw_in.json.kind = "hourly") =>
        LET h == pw_in.json.hourly
            idx == InWindowIndices(h.time, pw_in.s, pw_in.e, 0)
        IN  SelectSeq(pw_out.records, NoOffset)
              = [k \in 1..Len(idx) |-> MakeRecord(h, pw_in.outlet, idx[k])]

\* what the mapper contributes for one attempted outlet
Contribution(f) ==
    IF Falsy(f.json) THEN << >>
    ELSE parse_weather_data(f.json, f.outlet, start_date, end_date).records

FirstRows(f, k) == IF k = 0 THEN << >> ELSE << [f |-> f, lo |-> 1, hi |-> k] >>

RowsOnDisk(t) == IF csvFiles[t].exists THEN csvFiles[t].n ELSE 0

\* C4: whenever load_csv_to_table has returned True for a table in the current
\* run, the table holds exactly the rows of its source file, whatever it held
\* before and however many runs came before.
C4_ReplaceOnLoad ==
    \A t \in TableNames :
        hist.returned[t] = "true" => tables[t] = FirstRows(FileId(t), csvFiles[t].n)

\* a second run has reloaded a file of three batches into a table that held
\* other rows before the first run
C4_Witness ==
    /\ hist.run = 2 /\ hist.returned["org"] = "true"
    /\ hist.weather0 # << >>
    /\ csvFiles["org"].n = 2 * batch_size + 1

\* C9: from the truncation of a table on, in a run of load_csv_to_table that
\* ends in any way, the table is truncated exactly once and holds exactly the
\* rows of the batches committed so far: a prefix of the source file made of
\* whole batches of batch_size rows (the last one possibly shorter), with no
\* row of its earlier contents; no batch is committed before the truncation.
C9_BatchPrefix ==
    \A t \in TableNames :
        /\ hist.batches[t] >= 1 => hist.truncs[t] >= 1
        /\ hist.truncs[t] >= 1 =>
              /\ hist.truncs[t] = 1
              /\ tables[t] = FirstRows(FileId(t),
                                       Min(hist.batches[t] * batch_size, RowsOnDisk(t)))

\* a run that died in the third batch of a file, over a table that held other
\* rows before: the two committed batches are what the table holds
C9_Witness ==
    /\ m_pc = "done" /\ exit_code = Some(1) /\ hist.weather0 # << >>
    /\ \E t \in TableNames :
         /\ csvFiles[t].n = 2 * batch_size + 1 /\ csvFiles[t].bad = csvFiles[t].n
         /\ hist.batches[t] = 2
         /\ tables[t] = FirstRows(FileId(t), 2 * batch_size)

IsPrefix(a, b) ==
    \/ a = << >>
    \/ /\ Len(a) <= Len(b)
       /\ \A k \in 1..(Len(a) - 1) : a[k] = b[k]
       /\ a[Len(a)].f = b[Len(a)].f /\ a[Len(a)].lo = b[Len(a)].lo
       /\ a[Len(a)].hi <= b[Len(a)].hi

\* the rows of the artifacts named k..MaxArtifacts, by ascending name
RECURSIVE ArtifactRows(_)
ArtifactRows(k) ==
    IF k > MaxArtifacts THEN << >>
    ELSE LET S == {a \in weatherDir.files : a.name = k /\ a.readable /\ a.n > 0}
         IN  (IF S = {} THEN << >> ELSE FirstRows(k, (CHOOSE a \in S : TRUE).n))
             \o ArtifactRows(k + 1)

RECURSIVE Times(_, _)
Times(n, rows) == IF n = 0 THEN << >> ELSE rows \o Times(n - 1, rows)

Ascending(ns) == \A j, k \in 1..Len(ns) : j < k => ns[j] < ns[k]

WeatherGrows == IsPrefix(tables["weather"], tables'["weather"])

\* C5: no step of the loader removes a row of the weather table (each step
\* leaves its contents a prefix of the new contents); the artifacts of a run
\* are attempted in ascending file name order; and after k runs without any
\* failure the table holds its earlier rows followed by k copies of the rows of
\* the artifacts, in file name order: every row of every artifact k times.
C5_WeatherAppends ==
    /\ [][WeatherGrows]_vars
    /\ [](Ascending(hist.wtried))
    /\ []((m_pc = "done" /\ ~hist.failed) =>
            tables["weather"] = hist.weather0 \o Times(hist.run, ArtifactRows(1)))

\* two runs without failure over two artifacts with rows, the table having
\* held other rows before
C5_Witness ==
    /\ m_pc = "done" /\ hist.run = 2 /\ ~hist.failed
    /\ hist.weather0 # << >>
    /\ Len(ArtifactRows(1)) = 2
    /\ Len(tables["weather"]) = 5

HasRows(content, f, n) ==
    \E k \in 1..Len(content) : content[k] = [f |-> f, lo |-> 1, hi |-> n]

\* C6 as stated: in a weather load whose connection was not lost, every
\* artifact is attempted in sorted order and every readable artifact with rows
\* the server accepts has its rows committed by this run, whatever happened to
\* the artifacts before it.
C6_LaterArtifactsLoad ==
    (m_pc = "done" /\ weather_count # None /\ ~hist.lost) =>
        /\ hist.wtried = [k \in 1..Len(weather_files) |-> weather_files[k].name]
        /\ \A k \in 1..Len(weather_files) :
              LET a == weather_files[k]
              IN  (a.readable /\ a.n > 0 /\ a.bad = 0) => HasRows(hist.wrun, a.name, a.n)

NumberTrue == Cardinality({t \in TableNames : hist.returned[t] = "true"})

\* C7 as stated: a run of main that connected and in which no load raised
\* attempts all eight tables in order, counts the successful ones and ends
\* normally (exit status 0), whatever the weather directory holds.
C7_MainEndsNormally ==
    (m_pc = "done" /\ hist.connected /\ ~hist.raised) =>
        /\ hist.attempted = TableOrder
        /\ success_count = NumberTrue
        /\ exit_code = Some(0)

\* C10 as stated: at the end of a weather load weather_count is the number of
\* rows this run committed into the weather table.
C10_CountIsCommitted ==
    (m_pc = "done" /\ weather_count # None) =>
        weather_count[1] = RowCount(hist.wrun)

====
